---- MODULE Spec2Model ----
(***************************************************************************)
(* Announcement and login handlers of the High School Management System   *)
(* API (src/backend/routers/announcements.py, src/backend/routers/auth.py) *)
(* as a state machine over the announcement collection.                    *)
(*                                                                         *)
(* Handlers are plain `def` endpoints, which FastAPI runs on a thread      *)
(* pool: requests run concurrently and interleave between their database   *)
(* calls.  Every database call is one atomic step.                         *)
(*                                                                         *)
(* Text that the code parses or compares is kept as text: a string is a    *)
(* sequence of one-character strings, ordered as Python orders str (by     *)
(* code point).  Date-times are written in a miniature of the ISO layout   *)
(* "YYYY-MM-DD<sep>HH:MM:SS[+HH:MM]": one digit for the date, one          *)
(* separator character, one digit for the time of day, and an optional     *)
(* "+" and one digit for a UTC offset; a day has ten time units.  Object   *)
(* ids are written with two hexadecimal digits instead of twenty-four.     *)
(***************************************************************************)
EXTENDS Integers, Sequences, FiniteSets, TLC

(* ------------------------------ bounds --------------------------------- *)

\* The clock runs from 0 to MaxTime.
MaxTime == 1

\* At most MaxRequests requests are made in a run.
MaxRequests == 3

\* The threads of the pool that run the handlers.
Procs == {1, 2}

(* ------------------------------- text ---------------------------------- *)

Digits == <<"0", "1", "2", "3", "4", "5", "6", "7", "8", "9">>

HexDigits == Digits \o <<"a", "b", "c", "d", "e", "f">>

\* The code point of a character (Python's ord).
Ord(c) ==
    CASE c = " " -> 32
      [] c = "+" -> 43
      [] c = "0" -> 48 [] c = "1" -> 49 [] c = "2" -> 50 [] c = "3" -> 51
      [] c = "4" -> 52 [] c = "5" -> 53 [] c = "6" -> 54 [] c = "7" -> 55
      [] c = "8" -> 56 [] c = "9" -> 57
      [] c = "T" -> 84
      [] c = "a" -> 97 [] c = "b" -> 98 [] c = "c" -> 99 [] c = "d" -> 100
      [] c = "e" -> 101 [] c = "f" -> 102
      [] c = "n" -> 110
      [] c = "t" -> 116
      [] c = "z" -> 122

IsDigit(c) == \E i \in 1..Len(Digits) : Digits[i] = c

DigitValue(c) == (CHOOSE i \in 1..Len(Digits) : Digits[i] = c) - 1

IsHex(c) == \E i \in 1..Len(HexDigits) : HexDigits[i] = c

HexValue(c) == (CHOOSE i \in 1..Len(HexDigits) : HexDigits[i] = c) - 1

\* Python's str "<": the first differing character decides, a proper prefix
\* is smaller.
RECURSIVE StrLess(_, _)
StrLess(a, b) ==
    IF b = <<>> THEN FALSE
    ELSE IF a = <<>> THEN TRUE
    ELSE IF Ord(Head(a)) # Ord(Head(b)) THEN Ord(Head(a)) < Ord(Head(b))
    ELSE StrLess(Tail(a), Tail(b))

\* Python's None for an optional query parameter.
None == <<"<None>">>

\* Python truthiness of an Optional[str]: None and "" are false.
Truthy(s) == s # None /\ s # <<>>

(* ----------------------------- datetime -------------------------------- *)

\* datetime.isoformat() of the naive local time t.
IsoFormat(t) == <<Digits[(t \div 10) + 1], "T", Digits[(t % 10) + 1]>>

\* datetime.fromisoformat: a date alone is midnight, the separator may be any
\* single character, an offset makes the value timezone-aware; anything else
\* raises ValueError.  t is the time denoted: as written for a naive value,
\* as written less the offset for an aware one.
FromIsoFormat(s) ==
    IF Len(s) = 1 /\ IsDigit(s[1])
    THEN [ok |-> TRUE, aware |-> FALSE, t |-> DigitValue(s[1]) * 10]
    ELSE IF Len(s) = 3 /\ IsDigit(s[1]) /\ IsDigit(s[3])
    THEN [ok |-> TRUE, aware |-> FALSE,
          t |-> DigitValue(s[1]) * 10 + DigitValue(s[3])]
    ELSE IF Len(s) = 5 /\ IsDigit(s[1]) /\ IsDigit(s[3]) /\ s[4] = "+"
            /\ IsDigit(s[5])
    THEN [ok |-> TRUE, aware |-> TRUE,
          t |-> DigitValue(s[1]) * 10 + DigitValue(s[3]) - DigitValue(s[5])]
    ELSE [ok |-> FALSE, aware |-> FALSE, t |-> 0]

\* validate_date_format: TRUE when the string parses, FALSE when the handler
\* answers 400 "Invalid <field> format".
validate_date_format(s) == FromIsoFormat(s).ok

(* ------------------------------ ObjectId ------------------------------- *)

\* str(ObjectId): the id in hexadecimal, fixed width.
ObjectIdStr(n) == <<HexDigits[(n \div 16) + 1], HexDigits[(n % 16) + 1]>>

\* ObjectId(announcement_id): raises InvalidId unless the text is hexadecimal
\* of the fixed width.
ObjectIdValid(s) == Len(s) = 2 /\ IsHex(s[1]) /\ IsHex(s[2])

ObjectId(s) == HexValue(s[1]) * 16 + HexValue(s[2])

(* ------------------------------ Teacher Store -------------------------- *)

\* PasswordHasher.hash: a one-way encoding of the password.
PasswordHash(password) == <<"$argon2id$", password>>

\* teachers_collection: keyed by username, read-only for these handlers.
Teachers ==
    [u \in {"teacher1"} |->
        [username |-> u, display_name |-> "Ms. One", role |-> "teacher",
         password |-> PasswordHash("secret1")]]

\* teachers_collection.find_one({"_id": username}) found a record.
TeacherFound(username) == username \in DOMAIN Teachers

\* verify_password: ph.verify raises VerifyMismatchError when the password does
\* not hash to the stored value.
verify_password(password, hashed_password) ==
    hashed_password = PasswordHash(password)

(* ------------------------------ request inputs ------------------------- *)

Usernames == {"teacher1", "nobody"}

Passwords == {"secret1", "wrong"}

Texts == {[title |-> "A", message |-> "a"], [title |-> "B", message |-> "b"]}

\* Expiration dates submitted: times 0 and 1 in ISO with "T", and one that
\* is no date.
ExpirationInputs == {IsoFormat(0), IsoFormat(1), <<"n">>}

\* An expiration date with a UTC offset.
AwareInput == <<"0", "T", "1", "+", "0">>

\* Start dates submitted: absent, time 1 written with a space for the "T",
\* one that is no date.
StartInputs == {None, <<"0", " ", "1">>, <<"n">>}

\* Announcement ids submitted: the ids of the first two announcements
\* inserted, and one that is not hexadecimal.
IdInputs == {ObjectIdStr(1), ObjectIdStr(2), <<"z", "z">>}

(* -------------------------------- state -------------------------------- *)

VARIABLES
    store,      \* announcements_collection: ObjectId -> document
    nextId,     \* the next ObjectId insert_one generates
    clock,      \* datetime.now()
    pc,         \* per request thread: where in its handler it stands
    loc,        \* per request thread: the request and the handler's locals
    last,       \* the response sent most recently
    deleted,    \* history: ids whose Delete returned its confirmation
    requests    \* history: the number of requests made so far

vars == <<store, nextId, clock, pc, loc, last, deleted, requests>>

NoRequest == [op |-> "none"]

Idle == [req |-> NoRequest, now |-> 0, obj_id |-> 0]

NoResponse ==
    [req |-> NoRequest, status |-> 0, detail |-> "", body |-> <<>>, now |-> 0]

Init ==
    /\ store = <<>>
    /\ nextId = 1
    /\ clock = 0
    /\ pc = [p \in Procs |-> "idle"]
    /\ loc = [p \in Procs |-> Idle]
    /\ last = NoResponse
    /\ deleted = {}
    /\ requests = 0

\* Responses are observed one at a time: a step is taken once the previous
\* response has been read.
Ready == last = NoResponse

\* Thread p takes a new request.  The threads are interchangeable: a request
\* goes to the first free one.
Accept(p) ==
    /\ Ready
    /\ pc[p] = "idle"
    /\ \A q \in Procs : pc[q] = "idle" => p <= q
    /\ requests < MaxRequests
    /\ requests' = requests + 1

\* The handler of thread p returns or raises: the response goes out and the
\* thread is free again.  body is a sequence of JSON objects (one for an
\* object, none for an error); now is the handler's captured now, 0 for a
\* handler that captures none.
Respond(p, req, status, detail, body, now) ==
    /\ last' = [req |-> req, status |-> status, detail |-> detail,
                body |-> body, now |-> now]
    /\ pc' = [pc EXCEPT ![p] = "idle"]
    /\ loc' = [loc EXCEPT ![p] = Idle]

\* The handler of thread p goes on to its next database call.
Continue(p, label, req, now, obj_id) ==
    /\ pc' = [pc EXCEPT ![p] = label]
    /\ loc' = [loc EXCEPT ![p] = [req |-> req, now |-> now, obj_id |-> obj_id]]
    /\ UNCHANGED last

\* The caller reads the response.
Deliver ==
    /\ last # NoResponse
    /\ last' = NoResponse
    /\ UNCHANGED <<store, nextId, clock, pc, loc, deleted, requests>>

\* Time passes.
Tick ==
    /\ Ready
    /\ clock < MaxTime
    /\ clock' = clock + 1
    /\ UNCHANGED <<store, nextId, pc, loc, last, deleted, requests>>

(* ---------------------------- serialization ---------------------------- *)

serialize_announcement(id, announcement) ==
    [id |-> ObjectIdStr(id),
     title |-> announcement.title,
     message |-> announcement.message,
     start_date |-> announcement.start_date,
     expiration_date |-> announcement.expiration_date,
     created_by |-> announcement.created_by,
     created_at |-> announcement.created_at]

\* The ids of a set in increasing order (the order of insertion).
RECURSIVE InOrder(_)
InOrder(S) ==
    IF S = {} THEN <<>>
    ELSE LET m == CHOOSE x \in S : \A y \in S : x <= y
         IN <<m>> \o InOrder(S \ {m})

\* announcements_collection.find(), each document serialized.
FindAll(st) ==
    LET ids == InOrder(DOMAIN st)
    IN [i \in 1..Len(ids) |-> serialize_announcement(ids[i], st[ids[i]])]

(* ------------------------------ List (active) -------------------------- *)

\* The date-window test of get_announcements: the serialized date strings
\* against now.isoformat(), as strings.
Skipped(serialized, now) ==
    \/ /\ Truthy(serialized.expiration_date)
       /\ StrLess(serialized.expiration_date, now)
    \/ /\ Truthy(serialized.start_date)
       /\ StrLess(now, serialized.start_date)

get_announcements_result(st, active_only, now) ==
    LET Keep(serialized) == ~(active_only /\ Skipped(serialized, now))
    IN SelectSeq(FindAll(st), Keep)

get_announcements(p) ==
    /\ Accept(p)
    /\ \E active_only \in BOOLEAN :
          Respond(p, [op |-> "list", active_only |-> active_only], 200, "",
                  get_announcements_result(store, active_only,
                                           IsoFormat(clock)),
                  clock)
    /\ UNCHANGED <<store, nextId, clock, deleted>>

(* ------------------------------- List (all) ---------------------------- *)

get_all_announcements(p) ==
    /\ Accept(p)
    /\ \E teacher_username \in Usernames :
          LET req == [op |-> "list_all", teacher_username |-> teacher_username]
          IN IF ~TeacherFound(teacher_username)
             THEN Respond(p, req, 401, "Authentication required", <<>>, clock)
             ELSE Respond(p, req, 200, "", FindAll(store), clock)
    /\ UNCHANGED <<store, nextId, clock, deleted>>

(* --------------------------------- Create ------------------------------ *)

\* create_announcement up to the insert: the status and detail it raises, or
\* 200 when it goes on to insert.  now is the datetime.now() of line 103.  A
\* naive now compared with an aware expiration date raises TypeError, which
\* the framework answers with 500.
\* create_check with the expiration date validated before the teacher lookup.
create_check_dates_first(req, now) ==
    LET exp_date == FromIsoFormat(req.expiration_date)
    IN IF ~validate_date_format(req.expiration_date)
       THEN [status |-> 400, detail |-> "Invalid expiration date format"]
       ELSE IF ~TeacherFound(req.teacher_username)
       THEN [status |-> 401, detail |-> "Authentication required"]
       ELSE IF exp_date.aware
       THEN [status |-> 500, detail |-> "Internal Server Error"]
       ELSE IF exp_date.t < now
       THEN [status |-> 400,
             detail |-> "Expiration date must be in the future"]
       ELSE IF Truthy(req.start_date) /\ ~validate_date_format(req.start_date)
       THEN [status |-> 400, detail |-> "Invalid start date format"]
       ELSE [status |-> 200, detail |-> ""]

create_check(req, now) ==
    LET exp_date == FromIsoFormat(req.expiration_date)
    IN IF ~TeacherFound(req.teacher_username)
       THEN [status |-> 401, detail |-> "Authentication required"]
       ELSE IF ~validate_date_format(req.expiration_date)
       THEN [status |-> 400, detail |-> "Invalid expiration date format"]
       ELSE IF exp_date.aware
       THEN [status |-> 500, detail |-> "Internal Server Error"]
       ELSE IF exp_date.t < now
       THEN [status |-> 400,
             detail |-> "Expiration date must be in the future"]
       ELSE IF Truthy(req.start_date) /\ ~validate_date_format(req.start_date)
       THEN [status |-> 400, detail |-> "Invalid start date format"]
       ELSE [status |-> 200, detail |-> ""]

\* The document create_announcement inserts; created_at is a second
\* datetime.now(), read when the document is built.
new_announcement(req, created_at) ==
    [title |-> req.title,
     message |-> req.message,
     start_date |-> req.start_date,
     expiration_date |-> req.expiration_date,
     created_by |-> req.teacher_username,
     created_at |-> IsoFormat(created_at)]

create_announcement(p) ==
    /\ Accept(p)
    /\ \E text \in Texts,
          expiration_date \in ExpirationInputs \cup {AwareInput},
          start_date \in StartInputs, teacher_username \in Usernames :
          LET req == [op |-> "create", title |-> text.title,
                      message |-> text.message,
                      expiration_date |-> expiration_date,
                      start_date |-> start_date,
                      teacher_username |-> teacher_username]
              r == create_check(req, clock)
          IN IF r.status # 200
             THEN Respond(p, req, r.status, r.detail, <<>>, clock)
             ELSE Continue(p, "c_insert", req, clock, 0)
    /\ UNCHANGED <<store, nextId, clock, deleted>>

create_insert(p) ==
    /\ Ready
    /\ pc[p] = "c_insert"
    /\ LET announcement == new_announcement(loc[p].req, clock)
       IN /\ store' = (nextId :> announcement) @@ store
          /\ nextId' = nextId + 1
          /\ Respond(p, loc[p].req, 200, "",
                     <<serialize_announcement(nextId, announcement)>>,
                     loc[p].now)
    /\ UNCHANGED <<clock, deleted, requests>>

(* --------------------------------- Update ------------------------------ *)

\* update_announcement up to the update_one: the status and detail it raises,
\* or 200 when it goes on to update.
\* update_check with the dates validated before the existence check.
update_check_dates_first(st, req) ==
    IF ~TeacherFound(req.teacher_username)
    THEN [status |-> 401, detail |-> "Authentication required"]
    ELSE IF ~ObjectIdValid(req.announcement_id)
    THEN [status |-> 400, detail |-> "Invalid announcement ID"]
    ELSE IF ~validate_date_format(req.expiration_date)
    THEN [status |-> 400, detail |-> "Invalid expiration date format"]
    ELSE IF Truthy(req.start_date) /\ ~validate_date_format(req.start_date)
    THEN [status |-> 400, detail |-> "Invalid start date format"]
    ELSE IF ObjectId(req.announcement_id) \notin DOMAIN st
    THEN [status |-> 404, detail |-> "Announcement not found"]
    ELSE [status |-> 200, detail |-> ""]

update_check(st, req) ==
    IF ~TeacherFound(req.teacher_username)
    THEN [status |-> 401, detail |-> "Authentication required"]
    ELSE IF ~ObjectIdValid(req.announcement_id)
    THEN [status |-> 400, detail |-> "Invalid announcement ID"]
    ELSE IF ObjectId(req.announcement_id) \notin DOMAIN st
    THEN [status |-> 404, detail |-> "Announcement not found"]
    ELSE IF ~validate_date_format(req.expiration_date)
    THEN [status |-> 400, detail |-> "Invalid expiration date format"]
    ELSE IF Truthy(req.start_date) /\ ~validate_date_format(req.start_date)
    THEN [status |-> 400, detail |-> "Invalid start date format"]
    ELSE [status |-> 200, detail |-> ""]

\* set_update_data leaving start_date as it was when none is submitted.
set_update_data_keep_start(announcement, req) ==
    [announcement EXCEPT !.title = req.title,
                         !.message = req.message,
                         !.start_date = IF Truthy(req.start_date)
                                        THEN req.start_date ELSE @,
                         !.expiration_date = req.expiration_date]

\* The document after {"$set": update_data}.
set_update_data(announcement, req) ==
    [announcement EXCEPT !.title = req.title,
                         !.message = req.message,
                         !.start_date = req.start_date,
                         !.expiration_date = req.expiration_date]

\* update_one called with upsert=True.
update_one_upsert(st, obj_id, req) ==
    IF obj_id \in DOMAIN st
    THEN [st EXCEPT ![obj_id] = set_update_data(st[obj_id], req)]
    ELSE (obj_id :> [title |-> req.title, message |-> req.message,
                     start_date |-> req.start_date,
                     expiration_date |-> req.expiration_date,
                     created_by |-> "", created_at |-> <<>>]) @@ st

\* announcements_collection.update_one({"_id": obj_id}, {"$set": ...}): the
\* collection afterwards.  Nothing matches an absent id and nothing is added.
update_one(st, obj_id, req) ==
    IF obj_id \in DOMAIN st
    THEN [st EXCEPT ![obj_id] = set_update_data(st[obj_id], req)]
    ELSE st

update_announcement(p) ==
    /\ Accept(p)
    /\ \E announcement_id \in IdInputs, text \in Texts,
          expiration_date \in ExpirationInputs,
          start_date \in StartInputs, teacher_username \in Usernames :
          LET req == [op |-> "update", announcement_id |-> announcement_id,
                      title |-> text.title, message |-> text.message,
                      expiration_date |-> expiration_date,
                      start_date |-> start_date,
                      teacher_username |-> teacher_username]
              r == update_check(store, req)
          IN IF r.status # 200
             THEN Respond(p, req, r.status, r.detail, <<>>, 0)
             ELSE Continue(p, "u_update", req, 0,
                           ObjectId(announcement_id))
    /\ UNCHANGED <<store, nextId, clock, deleted>>

\* update_one and the matched_count test.
update_write(p) ==
    /\ Ready
    /\ pc[p] = "u_update"
    /\ store' = update_one(store, loc[p].obj_id, loc[p].req)
    /\ IF loc[p].obj_id \notin DOMAIN store
       THEN Respond(p, loc[p].req, 500, "Failed to update announcement",
                    <<>>, loc[p].now)
       ELSE Continue(p, "u_fetch", loc[p].req, loc[p].now, loc[p].obj_id)
    /\ UNCHANGED <<nextId, clock, deleted, requests>>

\* The closing find_one and serialize_announcement(updated).  find_one gives
\* None for an absent id, and serialize_announcement(None) raises TypeError,
\* which the framework answers with 500.
update_fetch(p) ==
    /\ Ready
    /\ pc[p] = "u_fetch"
    /\ IF loc[p].obj_id \notin DOMAIN store
       THEN Respond(p, loc[p].req, 500, "Internal Server Error", <<>>,
                    loc[p].now)
       ELSE Respond(p, loc[p].req, 200, "",
                    <<serialize_announcement(loc[p].obj_id,
                                             store[loc[p].obj_id])>>,
                    loc[p].now)
    /\ UNCHANGED <<store, nextId, clock, deleted, requests>>

(* --------------------------------- Delete ------------------------------ *)

\* delete_announcement up to the delete_one.
delete_check(st, req) ==
    IF ~TeacherFound(req.teacher_username)
    THEN [status |-> 401, detail |-> "Authentication required"]
    ELSE IF ~ObjectIdValid(req.announcement_id)
    THEN [status |-> 400, detail |-> "Invalid announcement ID"]
    ELSE IF ObjectId(req.announcement_id) \notin DOMAIN st
    THEN [status |-> 404, detail |-> "Announcement not found"]
    ELSE [status |-> 200, detail |-> ""]

\* announcements_collection.delete_one({"_id": obj_id}): the collection
\* afterwards.
delete_one(st, obj_id) == [id \in DOMAIN st \ {obj_id} |-> st[id]]

delete_announcement(p) ==
    /\ Accept(p)
    /\ \E announcement_id \in IdInputs, teacher_username \in Usernames :
          LET req == [op |-> "delete", announcement_id |-> announcement_id,
                      teacher_username |-> teacher_username]
              r == delete_check(store, req)
          IN IF r.status # 200
             THEN Respond(p, req, r.status, r.detail, <<>>, 0)
             ELSE Continue(p, "d_delete", req, 0,
                           ObjectId(announcement_id))
    /\ UNCHANGED <<store, nextId, clock, deleted>>

\* delete_one and the deleted_count test.
delete_remove(p) ==
    /\ Ready
    /\ pc[p] = "d_delete"
    /\ store' = delete_one(store, loc[p].obj_id)
    /\ IF loc[p].obj_id \notin DOMAIN store
       THEN /\ Respond(p, loc[p].req, 500, "Failed to delete announcement",
                       <<>>, loc[p].now)
            /\ UNCHANGED deleted
       ELSE /\ Respond(p, loc[p].req, 200, "",
                       <<[message |-> "Announcement deleted successfully"]>>,
                       loc[p].now)
            /\ deleted' = deleted \cup {loc[p].obj_id}
    /\ UNCHANGED <<nextId, clock, requests>>

(* ---------------------------------- Login ------------------------------ *)

\* login answering an unknown username as check_session does.
login_result_tells_unknown(username, password) ==
    IF ~TeacherFound(username)
    THEN [status |-> 404, detail |-> "Teacher not found", body |-> <<>>]
    ELSE IF ~verify_password(password, Teachers[username].password)
    THEN [status |-> 401, detail |-> "Invalid username or password",
          body |-> <<>>]
    ELSE [status |-> 200, detail |-> "",
          body |-> <<[username |-> Teachers[username].username,
                      display_name |-> Teachers[username].display_name,
                      role |-> Teachers[username].role]>>]

\* login: the status, detail and body of the response.
login_result(username, password) ==
    IF ~TeacherFound(username)
       \/ ~verify_password(password, Teachers[username].password)
    THEN [status |-> 401, detail |-> "Invalid username or password",
          body |-> <<>>]
    ELSE [status |-> 200, detail |-> "",
          body |-> <<[username |-> Teachers[username].username,
                      display_name |-> Teachers[username].display_name,
                      role |-> Teachers[username].role]>>]

login(p) ==
    /\ Accept(p)
    /\ \E username \in Usernames, password \in Passwords :
          LET r == login_result(username, password)
          IN Respond(p, [op |-> "login", username |-> username,
                         password |-> password],
                     r.status, r.detail, r.body, 0)
    /\ UNCHANGED <<store, nextId, clock, deleted>>

(* ------------------------------- specification ------------------------- *)

Next ==
    \/ Tick
    \/ Deliver
    \/ \E p \in Procs : get_announcements(p)
    \/ \E p \in Procs : get_all_announcements(p)
    \/ \E p \in Procs : create_announcement(p)
    \/ \E p \in Procs : create_insert(p)
    \/ \E p \in Procs : update_announcement(p)
    \/ \E p \in Procs : update_write(p)
    \/ \E p \in Procs : update_fetch(p)
    \/ \E p \in Procs : delete_announcement(p)
    \/ \E p \in Procs : delete_remove(p)
    \/ \E p \in Procs : login(p)

Spec == Init /\ [][Next]_vars

(* --------------------------- reading a step ---------------------------- *)

\* A response goes out in this step.
Responds == last = NoResponse /\ last' # NoResponse

\* A handler answers in its first step, before any write to the store.
AnswersAtOnce == Responds /\ pc' = pc

\* Thread p's handler passes its checks in this step and goes on.
GoesOn(p) == pc[p] = "idle" /\ pc'[p] # "idle"

Mutating == {"create", "update", "delete"}

\* The time a stored date string denotes, for a naive date-time.
IsNaive(s) == Truthy(s) /\ FromIsoFormat(s).ok /\ ~FromIsoFormat(s).aware

TimeOf(s) == FromIsoFormat(s).t

\* The objects of a response body.
Items(body) == {body[i] : i \in 1..Len(body)}

(* -------------------------------- C1 ----------------------------------- *)

\* C1: a Create, Update or Delete whose teacher_username is not in the Teacher
\* Store is answered 401 with the Announcement Store left as it was, whatever
\* its other parameters, and never gets past its first step.
C1_UnknownTeacherIsRefused ==
    [][/\ (Responds /\ last'.req.op \in Mutating
              /\ last'.req.teacher_username \notin DOMAIN Teachers)
          => (last'.status = 401 /\ store' = store /\ pc' = pc)
       /\ \A p \in Procs :
             GoesOn(p) => loc'[p].req.teacher_username \in DOMAIN Teachers
      ]_vars

\* An Update by an unknown teacher, with a malformed id and an unparseable
\* date, was answered 401 while the store holds a record.
C1_Witness ==
    /\ last.req.op = "update"
    /\ last.req.teacher_username = "nobody"
    /\ last.req.announcement_id = <<"z", "z">>
    /\ last.req.expiration_date = <<"n">>
    /\ last.status = 401
    /\ DOMAIN store # {}

(* -------------------------------- C2 ----------------------------------- *)

\* C2: List(active_only=true) leaves out every stored announcement whose
\* expiration_date denotes a time before now and every one whose start_date
\* denotes a time after now, in whatever accepted format the date is
\* written; List all by a known teacher returns every stored announcement.
C2_ListRespectsDateWindow ==
    /\ (last.req.op = "list" /\ last.req.active_only)
          => \A id \in DOMAIN store :
                LET a == serialize_announcement(id, store[id])
                IN /\ (IsNaive(a.expiration_date)
                          /\ TimeOf(a.expiration_date) < last.now)
                      => a \notin Items(last.body)
                   /\ (IsNaive(a.start_date)
                          /\ TimeOf(a.start_date) > last.now)
                      => a \notin Items(last.body)
    /\ (last.req.op = "list_all"
          /\ last.req.teacher_username \in DOMAIN Teachers)
          => \A id \in DOMAIN store :
                serialize_announcement(id, store[id]) \in Items(last.body)

(* -------------------------------- C3 ----------------------------------- *)

\* C3: a Create by a known teacher with an expiration_date at or before the
\* now captured at the start of the call is answered 400 and inserts
\* nothing; with one strictly after it (start_date parseable or absent) it
\* inserts exactly one record; it succeeds in no other case.
C3_CreateNeedsFutureExpiration ==
    [][(Responds /\ last'.req.op = "create"
           /\ last'.req.teacher_username \in DOMAIN Teachers)
         => LET exp == last'.req.expiration_date
                start == last'.req.start_date
            IN /\ (IsNaive(exp) /\ TimeOf(exp) <= last'.now)
                  => (last'.status = 400 /\ store' = store)
               /\ (IsNaive(exp) /\ TimeOf(exp) > last'.now
                      /\ (Truthy(start) => FromIsoFormat(start).ok))
                  => /\ last'.status = 200
                     /\ Cardinality(DOMAIN store')
                           = Cardinality(DOMAIN store) + 1
               /\ last'.status = 200
                  => (IsNaive(exp) /\ TimeOf(exp) > last'.now)
      ]_vars

(* -------------------------------- C4 ----------------------------------- *)

\* C4: the record a Create persists has an expiration_date strictly after
\* its created_at.  Stated for the calls whose expiration_date was strictly
\* after the now captured at the start of the call, which pass the
\* expiration check however it treats equality.
C4_ExpirationAfterCreatedAt ==
    (/\ last.req.op = "create"
     /\ last.status = 200
     /\ TimeOf(last.req.expiration_date) > last.now)
       => LET doc == store[ObjectId(last.body[1].id)]
          IN TimeOf(doc.expiration_date) > TimeOf(doc.created_at)

(* -------------------------------- C5 ----------------------------------- *)

\* C5: an Update or Delete by a known teacher is answered 400 when its id is
\* not parseable as a store id, and 404 when the id is well-formed but the
\* existence check finds no such announcement, unparseable dates or not; the
\* store is unchanged in both cases, and a call that passes the check has a
\* well-formed id of a stored announcement.
C5_BadIdThenAbsentId ==
    [][/\ (AnswersAtOnce /\ last'.req.op \in {"update", "delete"}
              /\ last'.req.teacher_username \in DOMAIN Teachers)
          => LET id == last'.req.announcement_id
             IN /\ ~ObjectIdValid(id)
                   => /\ last'.status = 400
                      /\ last'.detail = "Invalid announcement ID"
                      /\ store' = store
                /\ (ObjectIdValid(id) /\ ObjectId(id) \notin DOMAIN store)
                   => (last'.status = 404 /\ store' = store)
       /\ \A p \in Procs :
             (GoesOn(p) /\ loc'[p].req.op \in {"update", "delete"})
                => /\ ObjectIdValid(loc'[p].req.announcement_id)
                   /\ ObjectId(loc'[p].req.announcement_id) \in DOMAIN store
      ]_vars

\* An Update by a known teacher of a well-formed id that is not stored, with
\* an unparseable expiration date, was answered 404 while the store holds
\* another record.
C5_Witness ==
    /\ last.req.op = "update"
    /\ last.req.teacher_username \in DOMAIN Teachers
    /\ ObjectIdValid(last.req.announcement_id)
    /\ ObjectId(last.req.announcement_id) \notin DOMAIN store
    /\ last.req.expiration_date = <<"n">>
    /\ last.status = 404
    /\ DOMAIN store # {}

(* -------------------------------- C6 ----------------------------------- *)

\* C6: when an Update's update_one matches announcement X, List all shows X
\* with the submitted title, message, start_date and expiration_date and its
\* former id, created_by and created_at, and every other record as it was.
C6_UpdateReplacesTheFourFields ==
    [][\A p \in Procs :
          (pc[p] = "u_update" /\ pc'[p] = "u_fetch")
             => LET x == loc[p].obj_id
                    req == loc[p].req
                    before == serialize_announcement(x, store[x])
                IN /\ [id |-> before.id,
                       title |-> req.title,
                       message |-> req.message,
                       start_date |-> req.start_date,
                       expiration_date |-> req.expiration_date,
                       created_by |-> before.created_by,
                       created_at |-> before.created_at]
                         \in Items(FindAll(store'))
                   /\ Len(FindAll(store')) = Len(FindAll(store))
                   /\ \A y \in DOMAIN store \ {x} :
                         serialize_announcement(y, store[y])
                            \in Items(FindAll(store'))
      ]_vars

\* An Update that omitted start_date has returned, alone, the record it
\* changed; the store holds a second record.
C6_Witness ==
    /\ last.req.op = "update"
    /\ last.status = 200
    /\ last.req.start_date = None
    /\ last.req.title = "B"
    /\ last.body[1].title = "B"
    /\ last.body[1].start_date = None
    /\ Cardinality(DOMAIN store) = 2
    /\ \A p \in Procs : pc[p] = "idle"

(* -------------------------------- C7 ----------------------------------- *)

\* C7: Login succeeds exactly when the username is a teacher's and the
\* password hashes to that teacher's stored hash; a success carries username,
\* display_name and role and nothing else; an unknown username and a wrong
\* password get the same status, message and body.
C7_LoginIsUniform ==
    last.req.op = "login"
       => LET u == last.req.username
              good == /\ u \in DOMAIN Teachers
                      /\ Teachers[u].password
                            = PasswordHash(last.req.password)
          IN /\ (last.status = 200) <=> good
             /\ good
                => /\ Len(last.body) = 1
                   /\ DOMAIN last.body[1]
                         = {"username", "display_name", "role"}
                   /\ last.body[1].username = u
                   /\ last.body[1].display_name = Teachers[u].display_name
                   /\ last.body[1].role = Teachers[u].role
             /\ ~good
                => /\ last.status = 401
                   /\ last.detail = "Invalid username or password"
                   /\ last.body = <<>>

\* A login with an unknown username was refused.
C7_Witness ==
    /\ last.req.op = "login"
    /\ last.req.username \notin DOMAIN Teachers
    /\ last.status = 401

(* -------------------------------- C8 ----------------------------------- *)

UpdateOutcomes ==
    {<<200, "">>,
     <<401, "Authentication required">>,
     <<400, "Invalid announcement ID">>,
     <<400, "Invalid expiration date format">>,
     <<400, "Invalid start date format">>,
     <<404, "Announcement not found">>,
     <<500, "Failed to update announcement">>}

\* C8: an Update whose update_one matched a record ends by returning the
\* serialized announcement; it ends in the 500 "Failed to update
\* announcement" only when update_one matched nothing; it ends in no outcome
\* other than the object, 401, 400, 404 and that 500.
C8_UpdateOutcomes ==
    [][/\ \A p \in Procs :
             (pc[p] = "u_fetch" /\ pc'[p] = "idle")
                => /\ last'.status = 200
                   /\ Len(last'.body) = 1
                   /\ last'.body[1].id = ObjectIdStr(loc[p].obj_id)
       /\ (Responds /\ last'.req.op = "update")
             => /\ <<last'.status, last'.detail>> \in UpdateOutcomes
                /\ last'.detail = "Failed to update announcement"
                      => \E p \in Procs :
                            /\ pc[p] = "u_update" /\ pc'[p] = "idle"
                            /\ loc[p].obj_id \notin DOMAIN store
      ]_vars

(* -------------------------------- C9 ----------------------------------- *)

C10_DeletionIsPermanent ==
    [][/\ \A x \in deleted' : x \notin DOMAIN store'
       /\ (Responds /\ last'.req.op \in {"list", "list_all"})
             => \A a \in Items(last'.body), x \in deleted :
                   a.id # ObjectIdStr(x)
       /\ (AnswersAtOnce /\ last'.req.op \in {"update", "delete"}
              /\ last'.req.teacher_username \in DOMAIN Teachers
              /\ ObjectIdValid(last'.req.announcement_id)
              /\ ObjectId(last'.req.announcement_id) \in deleted)
             => last'.status = 404
       /\ \A p \in Procs :
             (GoesOn(p) /\ loc'[p].req.op \in {"update", "delete"})
                => loc'[p].obj_id \notin deleted
      ]_vars

\* An Update of X that passed its existence check before X was deleted has
\* run its update_one after the Delete returned: X is still gone.
C10_Witness ==
    /\ last.req.op = "update"
    /\ last.detail = "Failed to update announcement"
    /\ ObjectId(last.req.announcement_id) \in deleted
    /\ ObjectId(last.req.announcement_id) \notin DOMAIN store

====
